---- MODULE Spec2Model ----
(***************************************************************************)
(* The Endicia shipping extension of the sale order (src/sale.py): the     *)
(* shipping-cost applicator Sale.apply_endicia_shipping, its two callers   *)
(* Sale.quote and Sale.update_endicia_shipment_cost, the rate lookup       *)
(* Sale.get_endicia_shipping_cost and the per-line weight calculator       *)
(* SaleLine.get_weight_for_endicia.                                        *)
(*                                                                         *)
(* Money is an integer amount, weights are integers in hundredths of the   *)
(* weight unit (the product weight field carries two digits), quantities   *)
(* are whole numbers.  A shipment_cost of 0 stands for both None and       *)
(* Decimal(0): the code only ever tests the field's truth value.           *)
(*                                                                         *)
(* What the host (Tryton) does around the module is modelled as follows:   *)
(*  - an operation runs in one transaction: an exception that leaves it    *)
(*    rolls back every write it made (Committed);                          *)
(*  - an order's lines are kept by (sequence, id), and a created line gets *)
(*    the next id of the table (Insert, nextId);                           *)
(*  - the base quotation moves the draft orders of the batch to quotation  *)
(*    and does not touch their lines (base_quote);                         *)
(*  - the unit-of-measure service converts exactly between quantity units  *)
(*    and rounds a weight in ounces to 0.01 (compute_qty_units,            *)
(*    compute_qty_oz);                                                     *)
(*  - the carrier's get_sale_price hands the lookup of an endicia carrier  *)
(*    to Sale.get_endicia_shipping_cost (get_sale_price).                  *)
(* Every operation records in `last` what it was given and the trace of    *)
(* what it did: the calls of apply_endicia_shipping, the rate requests     *)
(* sent and their replies, the writes and the errors raised.               *)
(***************************************************************************)
EXTENDS Integers, Sequences, FiniteSets, TLC

\* ------------------------------------------------------------------ bounds
MaxQty == 2
MaxNewLines == 2

Sales == {1, 2}
NewIdBase == 10 * (Cardinality(Sales) + 1)

\* The rate provider's price: no amount at all, or a decimal amount.
Amounts == {-3, 0, 5}
Replies == {[empty |-> TRUE, amount |-> 0]}
             \cup {[empty |-> FALSE, amount |-> a] : a \in Amounts}

\* ---------------------------------------------------------------- products
\* The product records the order lines refer to.  weight 0: not configured.
GoodsProducts == {"widget", "bolt", "brick", "pack", "ghost", "phantom"}
ServiceProducts == {"install", "postage"}

product_type(p) == IF p \in ServiceProducts THEN "service" ELSE "goods"

product_weight(p) ==
  CASE p = "widget" -> 201
    [] p = "bolt"   -> 100
    [] p = "brick"  -> 100
    [] p = "pack"   -> 50
    [] OTHER        -> 0

product_weight_uom(p) ==
  CASE p = "brick" -> "kg"
    [] p = "pack"  -> "lb"
    [] OTHER       -> "oz"

product_default_uom(p) == "u"

\* The carrier's product (a service) and its sale unit.
carrier_product == "postage"
carrier_product_sale_uom == "u"

\* ------------------------------------------------- unit-of-measure service
\* ProductUom.compute_qty between quantity units: "doz" is twelve "u".
UnitsPer(uom) == IF uom = "doz" THEN 12 ELSE 1

compute_qty_units(from_uom, qty, to_uom) ==
  (qty * UnitsPer(from_uom)) \div UnitsPer(to_uom)

\* Thousandths of an ounce in one weight unit (1 lb = 16 oz; 1 kg = 35.27396 oz,
\* taken as 35.274).
MilliOzPer(uom) ==
  CASE uom = "kg" -> 35274
    [] uom = "lb" -> 16000
    [] OTHER      -> 1000

\* ProductUom.compute_qty to ounces: hundredths of `uom` in, hundredths of an
\* ounce out, rounded to the ounce's precision of 0.01 (half up).
compute_qty_oz(uom, hundredths) ==
  (hundredths * MilliOzPer(uom) + 500) \div 1000

\* math.ceil of a value given in hundredths.
ceil(hundredths) == -((-hundredths) \div 100)

\* ------------------------------------------------------------------- lines
MerchLine(id, p, q, unit, seq) ==
  [id |-> id, type |-> "line", product |-> p, description |-> p,
   quantity |-> q, unit |-> unit, unit_price |-> 10, shipment_cost |-> 0,
   amount |-> 10 * q, taxes |-> {"vat"}, sequence |-> seq]

\* A shipping charge left on the order by an earlier run or another module.
OldShippingLine(id, cost, seq) ==
  [id |-> id, type |-> "line", product |-> carrier_product,
   description |-> "old", quantity |-> 1, unit |-> "u", unit_price |-> cost,
   shipment_cost |-> cost, amount |-> cost, taxes |-> {}, sequence |-> seq]

\* The line collections an order may hold when the model starts; b is the
\* first id of the order's lines.  Every collection is in (sequence, id) order.
InitialLines(b) ==
  {<<MerchLine(b, "bolt", q, "u", 1)>> : q \in 1..MaxQty}
    \cup {<<MerchLine(b, "brick", 1, "u", 1),
            MerchLine(b + 1, "pack", 1, "doz", 10000)>>}
    \cup {<<MerchLine(b, "install", 1, "u", 1),
            MerchLine(b + 1, "ghost", 1, "u", 2),
            MerchLine(b + 2, "phantom", 1, "u", 3)>>}
    \cup {<<MerchLine(b, "widget", 1, "u", 1),
            MerchLine(b + 1, "install", 1, "u", 2),
            OldShippingLine(b + 2, 4, 3),
            OldShippingLine(b + 3, 6, 4)>>}

VARIABLES
  state,      \* sale -> lifecycle state
  carrier,    \* sale -> "none" | "other" | "endicia" (carrier and cost method)
  mailclass,  \* sale -> "" (unset) or the mail class name
  lines,      \* sale -> the order's lines in (sequence, id) order
  lines0,     \* sale -> the lines the order started with
  nextId,     \* the next id of the sale.line table
  last        \* the last operation: what it was given and what it did

vars == <<state, carrier, mailclass, lines, lines0, nextId, last>>

NoError == [err |-> "", arg |-> ""]
Error(name, arg) == [err |-> name, arg |-> arg]

\* One entry of the operation's trace: a call, a request sent, a write, a raise.
Ev(ev, sale, n, txt) == [ev |-> ev, sale |-> sale, n |-> n, txt |-> txt]

\* Python's truth value of a cost (None and Decimal(0) are false).
Truthy(cost) == cost # 0

\* ----------------------------------------------------- weight calculator
\* The line's weight before rounding up, in hundredths of an ounce.
raw_weight(line) ==
  LET p == line.product
      quantity == IF line.unit # product_default_uom(p)
                  THEN compute_qty_units(line.unit, line.quantity,
                                         product_default_uom(p))
                  ELSE line.quantity
      weight == product_weight(p) * quantity
  IN IF product_weight_uom(p) # "oz"
     THEN compute_qty_oz(product_weight_uom(p), weight)
     ELSE weight

\* Faulty variant of get_weight_for_endicia: rounds down, checks nothing.
GetWeightFloor(line) ==
  [error |-> NoError, value |-> raw_weight(line) \div 100]

\* Faulty variant of get_weight_for_endicia: no test of the product's weight.
GetWeightUnchecked(line) ==
  [error |-> NoError,
   value |-> IF product_type(line.product) = "service" THEN 0
             ELSE ceil(raw_weight(line))]

\* SaleLine.get_weight_for_endicia: the value returned, or the error raised.
get_weight_for_endicia(line) ==
  IF product_type(line.product) = "service"
  THEN [error |-> NoError, value |-> 0]
  ELSE IF ~Truthy(product_weight(line.product))
  THEN [error |-> Error("weight_required", line.product), value |-> 0]
  ELSE [error |-> NoError, value |-> ceil(raw_weight(line))]

\* sum(map(get_weight_for_endicia, lines)): the lines are taken in order and
\* the first one that raises ends the summation.
RECURSIVE sum_weights(_, _, _)
sum_weights(lns, i, acc) ==
  IF i > Len(lns) THEN [error |-> NoError, value |-> acc]
  ELSE LET w == get_weight_for_endicia(lns[i])
       IN IF w.error # NoError THEN w
          ELSE sum_weights(lns, i + 1, acc + w.value)

\* Sale.get_endicia_shipping_cost for sale s holding lns, when the provider
\* would answer `reply`: the cost or the error, and the trace (the request is
\* in the trace only if it was sent).  The weights are summed while the
\* request is built; Decimal(...) of a response without amount raises.
get_endicia_shipping_cost(s, lns, mc, reply) ==
  IF mc = ""
  THEN [error |-> Error("mailclass_missing", ""), cost |-> 0, log |-> << >>]
  ELSE LET w == sum_weights(lns, 1, 0)
       IN IF w.error # NoError
          THEN [error |-> w.error, cost |-> 0, log |-> << >>]
          ELSE LET sent == <<Ev("rate_request", s, w.value, mc),
                             Ev("rate_reply", s, reply.amount,
                                IF reply.empty THEN "empty" ELSE "amount")>>
               IN IF reply.empty
                  THEN [error |-> Error("decimal_conversion", ""),
                        cost |-> 0, log |-> sent]
                  ELSE [error |-> NoError, cost |-> reply.amount,
                        log |-> sent]

\* Carrier.get_sale_price in the sale's carrier context: the endicia cost
\* method hands the lookup to the sale.
get_sale_price(s, lns, mc, reply) ==
  get_endicia_shipping_cost(s, lns, mc, reply)

\* ------------------------------------------------ shipping-cost applicator
\* The line ('create', {...}) adds.
ShippingLine(id, mc, cost) ==
  [id |-> id, type |-> "line", product |-> carrier_product,
   description |-> mc, quantity |-> 1, unit |-> carrier_product_sale_uom,
   unit_price |-> cost, shipment_cost |-> cost, amount |-> cost,
   taxes |-> {}, sequence |-> 9999]

\* Faulty variant of ToDelete: the filter on shipment_cost is lost.
ToDeleteEveryLine(lns) == {lns[i].id : i \in 1..Len(lns)}

\* [line for line in self.lines if line.shipment_cost], as ids.
ToDelete(lns) ==
  {lns[i].id : i \in {j \in 1..Len(lns) : Truthy(lns[j].shipment_cost)}}

RECURSIVE Remove(_, _)
Remove(lns, ids) ==
  IF lns = << >> THEN << >>
  ELSE IF Head(lns).id \in ids THEN Remove(Tail(lns), ids)
       ELSE <<Head(lns)>> \o Remove(Tail(lns), ids)

\* The host keeps an order's lines by (sequence, id).
Before(a, b) ==
  a.sequence < b.sequence \/ (a.sequence = b.sequence /\ a.id < b.id)

Insert(lns, l) ==
  LET k == Cardinality({i \in 1..Len(lns) : Before(lns[i], l)})
  IN SubSeq(lns, 1, k) \o <<l>> \o SubSeq(lns, k + 1, Len(lns))

\* Faulty variant of write_lines: the 'delete' action is lost.
WriteKeepsOld(lns, new, ids) == Insert(lns, new)

\* Sale.write([self], {'lines': [('create', ...), ('delete', ...)]}).
write_lines(lns, new, ids) == Insert(Remove(lns, ids), new)

Outcome(lns, created, error, log) ==
  [lines |-> lns, created |-> created, error |-> error, log |-> log]

\* Faulty variant of apply_endicia_shipping: a zero cost is written too.
ApplyIgnoresZero(s, lns, reply, id) ==
  LET called == <<Ev("apply", s, 0, "")>>
      sc == get_sale_price(s, lns, mailclass[s], reply)
  IN IF carrier[s] # "endicia" THEN Outcome(lns, 0, NoError, called)
     ELSE IF mailclass[s] = ""
     THEN Outcome(lns, 0, Error("mailclass_missing", ""),
                  called \o <<Ev("raise", s, 0, "mailclass_missing")>>)
     ELSE IF sc.error # NoError
     THEN Outcome(lns, 0, sc.error,
                  called \o sc.log \o <<Ev("raise", s, 0, sc.error.err)>>)
     ELSE Outcome(write_lines(lns, ShippingLine(id, mailclass[s], sc.cost),
                              ToDelete(lns)),
                  1, NoError, called \o sc.log \o <<Ev("write", s, id, "")>>)

\* Faulty variant of apply_endicia_shipping: the rate is looked up before the
\* mail class is tested.
ApplyLookupFirst(s, lns, reply, id) ==
  LET called == <<Ev("apply", s, 0, "")>>
      sc == get_sale_price(s, lns, "any", reply)
  IN IF carrier[s] # "endicia" THEN Outcome(lns, 0, NoError, called)
     ELSE IF mailclass[s] = ""
     THEN Outcome(lns, 0, Error("mailclass_missing", ""),
                  called \o sc.log \o <<Ev("raise", s, 0, "mailclass_missing")>>)
     ELSE IF sc.error # NoError
     THEN Outcome(lns, 0, sc.error,
                  called \o sc.log \o <<Ev("raise", s, 0, sc.error.err)>>)
     ELSE IF ~Truthy(sc.cost) THEN Outcome(lns, 0, NoError, called \o sc.log)
     ELSE Outcome(write_lines(lns, ShippingLine(id, mailclass[s], sc.cost),
                              ToDelete(lns)),
                  1, NoError, called \o sc.log \o <<Ev("write", s, id, "")>>)

\* Sale.apply_endicia_shipping on sale s holding lns, when the provider would
\* answer `reply`; id is the id the table gives a created line.
apply_endicia_shipping(s, lns, reply, id) ==
  LET called == <<Ev("apply", s, 0, "")>>
      sc == get_sale_price(s, lns, mailclass[s], reply)
  IN IF carrier[s] # "endicia" THEN Outcome(lns, 0, NoError, called)
     ELSE IF mailclass[s] = ""
     THEN Outcome(lns, 0, Error("mailclass_missing", ""),
                  called \o <<Ev("raise", s, 0, "mailclass_missing")>>)
     ELSE IF sc.error # NoError
     THEN Outcome(lns, 0, sc.error,
                  called \o sc.log \o <<Ev("raise", s, 0, sc.error.err)>>)
     ELSE IF ~Truthy(sc.cost) THEN Outcome(lns, 0, NoError, called \o sc.log)
     ELSE Outcome(write_lines(lns, ShippingLine(id, mailclass[s], sc.cost),
                              ToDelete(lns)),
                  1, NoError, called \o sc.log \o <<Ev("write", s, id, "")>>)

\* --------------------------------------------------------- batch operations
\* The non-empty batches of distinct orders an operation may be given.
Batches == {<<a>> : a \in Sales}
             \cup {x \in Sales \X Sales : x[1] # x[2]}

Range(f) == {f[i] : i \in DOMAIN f}

\* The running result of an operation: the lines as written so far, the ids
\* handed out, the trace, and the error that ended it (if any).
Run(lns, id, log, error) ==
  [lines |-> lns, nextId |-> id, log |-> log, error |-> error]

\* Faulty variant of apply_loop: an order's error is caught and the loop goes on.
RECURSIVE LoopSwallowsErrors(_, _, _, _)
LoopSwallowsErrors(sales, replies, i, run) ==
  IF i > Len(sales) THEN run
  ELSE LET s == sales[i]
           r == apply_endicia_shipping(s, run.lines[s], replies[s], run.nextId)
       IN LoopSwallowsErrors(sales, replies, i + 1,
            Run([run.lines EXCEPT ![s] = r.lines], run.nextId + r.created,
                run.log \o r.log, NoError))

\* Faulty variant of apply_loop: the batch is walked from its end.
RECURSIVE LoopBackwards(_, _, _, _)
LoopBackwards(sales, replies, i, run) ==
  IF i > Len(sales) \/ run.error # NoError THEN run
  ELSE LET s == sales[Len(sales) + 1 - i]
           r == apply_endicia_shipping(s, run.lines[s], replies[s], run.nextId)
       IN LoopBackwards(sales, replies, i + 1,
            Run([run.lines EXCEPT ![s] = r.lines], run.nextId + r.created,
                run.log \o r.log, r.error))

\* for sale in sales: sale.apply_endicia_shipping()
\* An error raised for one order leaves the loop: no later order is visited.
RECURSIVE apply_loop(_, _, _, _)
apply_loop(sales, replies, i, run) ==
  IF i > Len(sales) \/ run.error # NoError THEN run
  ELSE LET s == sales[i]
           r == apply_endicia_shipping(s, run.lines[s], replies[s], run.nextId)
       IN apply_loop(sales, replies, i + 1,
            Run([run.lines EXCEPT ![s] = r.lines], run.nextId + r.created,
                run.log \o r.log, r.error))

\* Sale.update_endicia_shipment_cost(sales), started from the running result.
update_endicia_shipment_cost(sales, replies, run) ==
  apply_loop(sales, replies, 1, run)

\* super(Sale, cls).quote(sales): the host's quotation of the whole batch.
base_quote(sales, st) ==
  [s \in Sales |-> IF s \in Range(sales) THEN "quotation" ELSE st[s]]

\* Faulty variant of button_enabled: the button is shown in every state.
ButtonAlwaysEnabled(st) == TRUE

\* The button's 'invisible': Eval('state') != 'quotation'.
button_enabled(st) == st = "quotation"

\* The host's transaction: an operation that ends by an error is rolled back
\* as a whole, one that returns is committed.
Committed(before, after, error) == IF error = NoError THEN after ELSE before

Last(op, sales, run, result) ==
  [op |-> op, sales |-> sales, error |-> run.error, log |-> run.log,
   result |-> result, pre |-> lines, preState |-> state]

\* ------------------------------------------------------------------ model
Init ==
  /\ state \in [Sales -> {"draft", "quotation", "confirmed"}]
  /\ \E c \in [Sales -> {<<"none", "Priority">>, <<"other", "Priority">>,
                         <<"endicia", "">>, <<"endicia", "Priority">>}] :
       /\ carrier = [s \in Sales |-> c[s][1]]
       /\ mailclass = [s \in Sales |-> c[s][2]]
  /\ lines \in [Sales -> UNION {InitialLines(10 * s) : s \in Sales}]
  /\ \A s \in Sales : lines[s] \in InitialLines(10 * s)
  /\ lines0 = lines
  /\ nextId = NewIdBase
  /\ last = [op |-> "none", sales |-> << >>, error |-> NoError, log |-> << >>,
             result |-> "", pre |-> lines, preState |-> state]

Finish(op, sales, run, st, result) ==
  /\ lines' = Committed(lines, run.lines, run.error)
  /\ state' = Committed(state, st, run.error)
  /\ nextId' = Committed(nextId, run.nextId, run.error)
  /\ last' = Last(op, sales, run, IF run.error = NoError THEN result ELSE "")
  /\ UNCHANGED <<carrier, mailclass, lines0>>

\* Sale.quote(sales), from the form's Quote button (shown on draft orders).
quote(sales, replies) ==
  /\ \A s \in Range(sales) : state[s] = "draft"
  /\ nextId < NewIdBase + MaxNewLines
  /\ LET st == base_quote(sales, state)
         run == update_endicia_shipment_cost(sales, replies,
                  Run(lines, nextId, <<Ev("base_quote", 0, 0, "")>>, NoError))
     IN Finish("quote", sales, run, st, "base_result")

\* The update_endicia_shipment_cost button.
update_button(sales, replies) ==
  /\ \A s \in Range(sales) : button_enabled(state[s])
  /\ nextId < NewIdBase + MaxNewLines
  /\ LET run == update_endicia_shipment_cost(sales, replies,
                  Run(lines, nextId, << >>, NoError))
     IN Finish("update", sales, run, state, "")

\* A direct call of sale.apply_endicia_shipping(), in any state of the order.
\* (In every operation, nextId < NewIdBase + MaxNewLines bounds the lines the
\* model creates.)
apply(s, reply) ==
  /\ nextId < NewIdBase + MaxNewLines
  /\ LET r == apply_endicia_shipping(s, lines[s], reply, nextId)
         run == Run([lines EXCEPT ![s] = r.lines], nextId + r.created,
                    r.log, r.error)
     IN Finish("apply", <<s>>, run, state, "")

Next ==
  \/ \E sales \in Batches : \E replies \in [Range(sales) -> Replies] :
       quote(sales, replies)
  \/ \E sales \in Batches : \E replies \in [Range(sales) -> Replies] :
       update_button(sales, replies)
  \/ \E s \in Sales, reply \in Replies : apply(s, reply)

Spec == Init /\ [][Next]_vars

\* ================================================================ claims
\* What the last operation's trace holds for sale s.
Idx(ev, s) ==
  {i \in 1..Len(last.log) : last.log[i].ev = ev /\ last.log[i].sale = s}

Applied(s) == Idx("apply", s) # {}
Written(s) == Idx("write", s) # {}
Raised(s, name) == \E i \in Idx("raise", s) : last.log[i].txt = name
RaisedAny(s) == Idx("raise", s) # {}

\* The lines flagged as a shipping charge (by position), the ids and the
\* merchandise lines of a collection.
Shipping(lns) == {i \in 1..Len(lns) : lns[i].shipment_cost # 0}
Ids(lns) == {lns[i].id : i \in 1..Len(lns)}
Merchandise(lns) == {lns[i] : i \in (1..Len(lns)) \ Shipping(lns)}
NewLines(s) == {l \in Range(lines[s]) : l.id \notin Ids(last.pre[s])}

\* C1: an order that started with no shipping-charge line never holds more
\* than one; and whenever an operation that completed wrote a shipping line
\* to an order, that order holds exactly one shipping line, the one just
\* written, and none of the shipping lines it held before (so a second
\* application removes the line the first one inserted).
C1_AtMostOneShippingLine ==
  \A s \in Sales :
    /\ Shipping(lines0[s]) = {} => Cardinality(Shipping(lines[s])) <= 1
    /\ (last.error = NoError /\ Written(s)) =>
         /\ Cardinality(Shipping(lines[s])) = 1
         /\ \A i \in Shipping(lines[s]) :
              \E j \in Idx("write", s) : lines[s][i].id = last.log[j].n
         /\ \A i \in Shipping(last.pre[s]) :
              last.pre[s][i].id \notin Ids(lines[s])

\* Shipping was applied a second time with the same positive rate to an order
\* that started without a shipping line: the first application's line is gone.
C1_Witness ==
  \E s \in Sales :
    /\ Shipping(lines0[s]) = {}
    /\ last.error = NoError /\ Written(s)
    /\ \E i \in Shipping(last.pre[s]) : \E k \in Shipping(lines[s]) :
         /\ last.pre[s][i].id >= NewIdBase
         /\ last.pre[s][i].shipment_cost > 0
         /\ lines[s][k].shipment_cost = last.pre[s][i].shipment_cost
         /\ lines[s][k].id # last.pre[s][i].id

\* C2: when shipping is applied to an order with the endicia carrier and no
\* mail class, the operation fails with mailclass_missing, the order's lines
\* are what they were, and no rate request was sent for the order.
C2_MissingMailClass ==
  \A s \in Sales :
    (Applied(s) /\ carrier[s] = "endicia" /\ mailclass[s] = "") =>
      /\ last.error = Error("mailclass_missing", "")
      /\ Raised(s, "mailclass_missing")
      /\ lines[s] = last.pre[s]
      /\ Idx("rate_request", s) = {}

\* The failing order would otherwise have got a rate: all its goods weigh.
C2_Witness ==
  \E s \in Sales :
    /\ Applied(s) /\ carrier[s] = "endicia" /\ mailclass[s] = ""
    /\ sum_weights(last.pre[s], 1, 0).error = NoError
    /\ last.error.err = "mailclass_missing"

\* C3 as stated: a rate that is zero, negative or empty makes the
\* application a no-op that returns normally.
C3_NonPositiveOrEmptyIsNoOp ==
  \A s \in Sales : \A i \in Idx("rate_reply", s) :
    (last.log[i].txt = "empty" \/ last.log[i].n <= 0) =>
      /\ ~RaisedAny(s)
      /\ ~Written(s)
      /\ lines[s] = last.pre[s]

\* C3 as amended: a zero rate makes the application a no-op that returns
\* normally; a negative rate is written as a shipping line of that amount,
\* like a positive one; an empty amount in the provider's answer fails in
\* the conversion to a decimal, with the lines unchanged.
C3_ZeroIsNoOp ==
  \A s \in Sales : \A i \in Idx("rate_reply", s) :
    /\ (last.log[i].txt = "amount" /\ last.log[i].n = 0) =>
         /\ ~RaisedAny(s)
         /\ ~Written(s)
         /\ lines[s] = last.pre[s]
    /\ (last.log[i].txt = "amount" /\ last.log[i].n < 0) =>
         /\ ~RaisedAny(s)
         /\ Written(s)
         /\ last.error = NoError =>
              \E k \in Shipping(lines[s]) :
                lines[s][k].shipment_cost = last.log[i].n
    /\ last.log[i].txt = "empty" =>
         /\ Raised(s, "decimal_conversion")
         /\ ~Written(s)
         /\ lines[s] = last.pre[s]

\* A zero rate came back for an order that holds lines, in an operation that
\* completed.
C3_Witness ==
  \E s \in Sales : \E i \in Idx("rate_reply", s) :
    /\ last.log[i].txt = "amount" /\ last.log[i].n = 0
    /\ last.error = NoError
    /\ Shipping(last.pre[s]) # {}
    /\ lines[s] = last.pre[s]

\* C4: no merchandise line is removed or altered by an operation; and when a
\* positive rate r was obtained for an order (in an operation that
\* completed), the order's lines are its former merchandise lines plus
\* exactly one new line with quantity 1, no taxes and unit price = amount =
\* shipment cost = r, every former shipping line being gone.
C4_ReplacesShippingLine ==
  \A s \in Sales :
    /\ Merchandise(last.pre[s]) \subseteq Range(lines[s])
    /\ \A i \in Idx("rate_reply", s) :
         (last.error = NoError /\ last.log[i].txt = "amount"
            /\ last.log[i].n > 0) =>
           /\ Cardinality(NewLines(s)) = 1
           /\ \A l \in NewLines(s) :
                /\ l.quantity = 1
                /\ l.taxes = {}
                /\ l.unit_price = last.log[i].n
                /\ l.amount = last.log[i].n
                /\ l.shipment_cost = last.log[i].n
           /\ Range(lines[s]) = Merchandise(last.pre[s]) \cup NewLines(s)
           /\ Len(lines[s]) = Cardinality(Merchandise(last.pre[s])) + 1

\* A positive rate replaced two former shipping lines on an order that also
\* holds merchandise.
C4_Witness ==
  \E s \in Sales : \E i \in Idx("rate_reply", s) :
    /\ last.error = NoError /\ last.log[i].txt = "amount" /\ last.log[i].n > 0
    /\ Cardinality(Shipping(last.pre[s])) = 2
    /\ Cardinality(Merchandise(last.pre[s])) = 2
    /\ Len(lines[s]) = 3

\* Applying shipping to sale s holding lns ends by one of the two user errors.
Fails(s, lns) ==
  /\ carrier[s] = "endicia"
  /\ mailclass[s] = "" \/ sum_weights(lns, 1, 0).error # NoError

\* C5: when quote or update_endicia_shipment_cost is run on a batch and
\* applying shipping fails on some order of the batch (no mail class, or a
\* product without weight), the operation ends by an error and no order keeps
\* a change: every order's lines and state are what they were before it.
C5_NoPartialCommit ==
  (last.op \in {"quote", "update"}
     /\ \E s \in Range(last.sales) : Fails(s, last.pre[s])) =>
    /\ last.error # NoError
    /\ lines = last.pre
    /\ state = last.preState

\* The operation had written a shipping line to the first order of the batch
\* when the second order failed.
C5_Witness ==
  /\ last.op \in {"quote", "update"}
  /\ Len(last.sales) = 2
  /\ Written(last.sales[1])
  /\ RaisedAny(last.sales[2])
  /\ last.error.err \in {"mailclass_missing", "weight_required"}
  /\ lines = last.pre

IsApply(e) == e.ev = "apply"
AppliedSales ==
  LET calls == SelectSeq(last.log, IsApply)
  IN [i \in 1..Len(calls) |-> calls[i].sale]

\* C6: the trace of quote(sales) starts with the base quotation of the whole
\* batch, which happens once; then shipping is applied to the orders in batch
\* order, once each and one order at a time (everything done for an order
\* follows its own call, before the next order's call); a quote that returns
\* has applied shipping to every order of the batch, returns the base
\* procedure's result and leaves the batch in quotation; one that fails ends
\* at the order that raised.
C6_QuoteIsBaseThenShipping ==
  last.op = "quote" =>
    /\ Len(last.log) >= 1
    /\ last.log[1].ev = "base_quote"
    /\ \A i \in 2..Len(last.log) :
         /\ last.log[i].ev # "base_quote"
         /\ last.log[i].ev # "apply" => last.log[i - 1].sale = last.log[i].sale
    /\ Len(AppliedSales) <= Len(last.sales)
    /\ AppliedSales = SubSeq(last.sales, 1, Len(AppliedSales))
    /\ last.error = NoError =>
         /\ AppliedSales = last.sales
         /\ last.result = "base_result"
         /\ \A s \in Range(last.sales) : state[s] = "quotation"
    /\ last.error # NoError =>
         /\ last.log[Len(last.log)].ev = "raise"
         /\ last.log[Len(last.log)].sale = AppliedSales[Len(AppliedSales)]

\* A quote of two orders that returned, with a rate fetched for each.
C6_Witness ==
  /\ last.op = "quote"
  /\ last.error = NoError
  /\ Len(last.sales) = 2
  /\ \A s \in Range(last.sales) : Written(s)
  /\ last.sales[1] > last.sales[2]

HasWeightless(lns) ==
  \E i \in 1..Len(lns) :
    lns[i].product \in GoodsProducts /\ product_weight(lns[i].product) = 0

FirstWeightless(lns) ==
  CHOOSE i \in 1..Len(lns) :
    /\ lns[i].product \in GoodsProducts /\ product_weight(lns[i].product) = 0
    /\ \A j \in 1..(i - 1) :
         ~(lns[j].product \in GoodsProducts
             /\ product_weight(lns[j].product) = 0)

\* C7: when shipping is applied to an order holding a goods line whose
\* product has no weight, no rate request is sent for it and its lines are
\* unchanged; if the order gets as far as the rate lookup (endicia carrier,
\* mail class set) the operation fails with weight_required naming the
\* product of the first such line.  The product named is always a goods
\* product without weight: a service line never raises.
C7_MissingWeight ==
  \A s \in Sales :
    /\ (Applied(s) /\ HasWeightless(last.pre[s])) =>
         /\ Idx("rate_request", s) = {}
         /\ ~Written(s)
         /\ lines[s] = last.pre[s]
    /\ (Applied(s) /\ HasWeightless(last.pre[s])
          /\ carrier[s] = "endicia" /\ mailclass[s] # "") =>
         /\ Raised(s, "weight_required")
         /\ last.error = Error("weight_required",
              last.pre[s][FirstWeightless(last.pre[s])].product)
    /\ Raised(s, "weight_required") =>
         /\ last.error.arg \in GoodsProducts
         /\ product_weight(last.error.arg) = 0
         /\ \E i \in 1..Len(last.pre[s]) :
              last.pre[s][i].product = last.error.arg

\* The error names the goods product, though a service line without weight
\* comes before it on the order.
C7_Witness ==
  \E s \in Sales :
    /\ Raised(s, "weight_required")
    /\ last.error.arg = "ghost"
    /\ last.pre[s][1].product \in ServiceProducts
    /\ product_weight(last.pre[s][1].product) = 0

\* C8: the update_endicia_shipment_cost button changes the lines of an order
\* only if the order was in the quotation state, and it changes no order's
\* state.
C8_ButtonOnlyInQuotation ==
  last.op = "update" =>
    /\ state = last.preState
    /\ \A s \in Range(last.sales) : last.preState[s] = "quotation"
    /\ \A s \in Sales :
         lines[s] # last.pre[s] => last.preState[s] = "quotation"

\* The button replaced the shipping line of an order in quotation.
C8_Witness ==
  /\ last.op = "update"
  /\ \E s \in Sales :
       /\ lines[s] # last.pre[s]
       /\ Shipping(last.pre[s]) # {}
       /\ state[s] = "quotation"

RECURSIVE SumOfWeights(_)
SumOfWeights(lns) ==
  IF lns = << >> THEN 0
  ELSE get_weight_for_endicia(Head(lns)).value + SumOfWeights(Tail(lns))

C10_NewLineHasHighestSequence ==
  \A s \in Sales :
    (last.error = NoError /\ Written(s)) =>
      \A l \in NewLines(s) : \A k \in 1..Len(lines[s]) :
        l.sequence >= lines[s][k].sequence

====
